---- MODULE Spec2Model ----
(***************************************************************************)
(* A model of src/api/rag_system.py: the embedding cache and client, the   *)
(* query enhancer, the hybrid (RRF) fusion, the reranker adapter and the   *)
(* POST /run pipeline.                                                     *)
(*                                                                         *)
(* Texts are small integers; the md5 fingerprint of a cleaned text is      *)
(* taken to be injective, so a cache key is the cleaned text itself.      *)
(* A vector is an integer Vec(t, v): the vector the provider returned for  *)
(* text t in a call of "version" v (two calls may return different         *)
(* vectors for the same text).                                             *)
(***************************************************************************)
EXTENDS Integers, Sequences, FiniteSets, TLC

VARIABLES
    embedding_cache,   \* global embedding_cache: cleaned text -> vector
    e_texts,           \* embed: texts after clean_for_embedding
    e_idxs,            \* embed: idxs, the (1-based) positions of the uncached texts
    e_embeddings,      \* embed: embeddings, and the returned array once e_pc = "returned"
    e_batch_start,     \* embed: batch_start (offset into to_embed)
    e_retry,           \* embed: retry_count
    e_pc,              \* embed: "idle", "batch", "returned", "raised", "raised_array"
    e_calls,           \* history: the calls of client.embeddings.create, in order
    e_cache0,          \* history: embedding_cache as it was when the call started
    q_query,           \* generate_query_variants: query, a sequence of characters
    q_variants,        \* generate_query_variants: the returned list of (text, weight)
    bm25_index,        \* hybrid_searcher.bm25_index: <<>> (None) or <<the indexed corpus>>
    bm25_corpus,       \* hybrid_searcher.bm25_corpus
    bm25_id_map,       \* hybrid_searcher.bm25_id_map: corpus position -> chunk id
    chunk_id_to_payload, \* hybrid_searcher.chunk_id_to_payload
    h_args,            \* hybrid_search: the arguments and what get_scores returns
    h_result,          \* hybrid_search: <<>> (no call yet) or <<the returned list>>
    r_args,            \* rerank_candidates: the arguments, co and what co.rerank does
    r_result,          \* rerank_candidates: <<>> (no call yet) or <<what the call did>>
    config,            \* the settings read at import: USE_HYBRID_SEARCH, QDRANT_URL, HACKRX_API_KEY
    pc,                \* run: "idle", "upsert" (lines 519-554) or "questions" (lines 760-769)
    request,           \* run: the Authorization header, urls and payload.questions
    run_chunks,        \* run: chunks and metas, each chunk with its text and source
    u_i,               \* upsert_chunks_to_qdrant: i, the offset of the batch
    u_chunk_ids,       \* upsert_chunks_to_qdrant: chunk_ids
    answers,           \* process_questions_sequential: answers
    response,          \* the answer of the last request: status and answers
    qd_points,         \* the vector store: point id -> payload
    index_origin,      \* history: who built the lexical index: "none", "disk", "earlier", "this"
    q_log,             \* history: what process_question did for each question so far
    n_requests,        \* history: the number of requests received
    run_log,           \* history: what the request has done so far to the outside
    c_args,            \* process_question: picked and MAX_CTX_CHUNKS
    c_result,           \* process_question: <<>> (not yet) or <<context_parts and context>>
    s_args,            \* qdrant_search_multi: the queries, limit, the threshold, what the services do
    s_result,           \* qdrant_search_multi: <<>> (not yet) or <<what the call did>>
    l_blob,            \* load_index: what bm25_index_universal.pkl holds
    l_returned         \* load_index: <<>> (not called yet) or <<the value returned>>

embedVars == <<embedding_cache, e_texts, e_idxs, e_embeddings, e_batch_start,
               e_retry, e_pc, e_calls, e_cache0>>

queryVars == <<q_query, q_variants>>

searcherVars == <<bm25_index, bm25_corpus, bm25_id_map, chunk_id_to_payload>>

hybridVars == <<h_args, h_result>>

rerankVars == <<r_args, r_result>>

runVars == <<config, pc, request, run_chunks, u_i, u_chunk_ids, answers, response,
             qd_points, index_origin, q_log, n_requests, run_log>>

contextVars == <<c_args, c_result>>

searchVars == <<s_args, s_result>>

loadVars == <<l_blob, l_returned>>

vars == <<embedVars, queryVars, searcherVars, hybridVars, rerankVars, runVars, contextVars, searchVars, loadVars>>

\* What an embed step leaves alone.
notEmbedVars == <<queryVars, searcherVars, hybridVars, rerankVars, runVars, contextVars, searchVars, loadVars>>

\* ------------------------------------------------------------------ bounds
MaxShort == 2      \* SpecEmbed: every input of at most this many texts is tried
MaxExtra == 2      \* SpecEmbed: long inputs have EMBEDDING_BATCH_SIZE + 1 .. + MaxExtra texts
MaxHead == 3       \* SpecQuery: a question starts with at most this many chosen words
MaxCorpus == 2     \* SpecHybrid: the lexical index holds at most this many chunks
MaxCands == 3      \* SpecRerank: short candidate lists have at most this many entries
MaxOver == 1       \* SpecRerank: long candidate lists have up to 100 + MaxOver entries
MaxChunks == 1     \* Spec: a document yields at most this many chunks
MaxRequests == 2   \* Spec: the process receives at most this many requests
MaxCtx == 2        \* SpecContext: MAX_CTX_CHUNKS is at most this, picked has up to one more
MaxHits == 2       \* SpecSearch: a vector search returns at most this many hits

\* --------------------------------------------------------------- constants
EMBEDDING_BATCH_SIZE == 10
max_retries == 3

\* ----------------------------------------------------------------- values
None == 0
NaN == -1
Texts == {1, 2}
Versions == {1, 2}
\* A raw text r > 10 is text r - 10 with characters clean_for_embedding removes.
RawTexts == {1, 2, 11}

Vec(t, v) == t * 10 + v
Vectors == {Vec(t, v) : t \in Texts, v \in Versions}

Min(a, b) == IF a < b THEN a ELSE b

Range(s) == {s[i] : i \in DOMAIN s}

clean_for_embedding(r) == IF r > 10 THEN r - 10 ELSE r

\* Every cache the process can hold: some texts, each with one of its vectors.
Caches == UNION {[S -> Vectors] : S \in SUBSET Texts}
ValidCaches == {c \in Caches : \A t \in DOMAIN c : \E v \in Versions : c[t] = Vec(t, v)}

Docs == {1, 2}

\* sha1(url): the document identifier of a locator (taken to be injective).
sha1(url) == url

\* line 533-534: str(uuid.uuid5(uuid.NAMESPACE_URL, f"{doc_id}|{global_idx_counter}")),
\* taken to be injective.
ChunkId(doc_id, counter) == doc_id * 100 + counter

\* The state of a component no call has used yet.
QueryIdle == q_query = <<>> /\ q_variants = <<>>

\* HybridSearcher.__init__, lines 366-370
SearcherEmpty ==
    /\ bm25_index = <<>>
    /\ bm25_corpus = <<>>
    /\ bm25_id_map = <<>>
    /\ chunk_id_to_payload = <<>>

HybridIdle == h_args = <<>> /\ h_result = <<>>

RerankIdle == r_args = <<>> /\ r_result = <<>>

ContextIdle == c_args = <<>> /\ c_result = <<>>

SearchIdle == s_args = <<>> /\ s_result = <<>>

LoadIdle == l_blob = <<>> /\ l_returned = <<>>

\* No header, no documents, no questions.
NoRequest == [authorization |-> [present |-> FALSE, value |-> <<>>],
              urls |-> <<>>, questions |-> <<>>]

NoResponse == [status |-> 0, answers |-> <<>>]

\* Nothing fetched, extract_chunks not called ("no"; else it "raised" or is
\* "done"), no call of embed, of qd.upsert or of build_bm25_index.
NoWork == [fetched |-> <<>>, extraction |-> "no", embedded |-> 0, upserted |-> 0,
           rebuilt |-> 0]

\* The process has received no request (and its settings do not matter).
RunIdle ==
    /\ config = [USE_HYBRID_SEARCH |-> TRUE, skip |-> FALSE, HACKRX_API_KEY |-> <<>>]
    /\ pc = "idle"
    /\ request = NoRequest
    /\ run_chunks = <<>>
    /\ u_i = 0
    /\ u_chunk_ids = <<>>
    /\ answers = <<>>
    /\ response = NoResponse
    /\ qd_points = <<>>
    /\ index_origin = "none"
    /\ q_log = <<>>
    /\ n_requests = 0
    /\ run_log = NoWork

\* ------------------------------------------------------------------ embed
\* lines 325-331: the positions whose fingerprint is not in the cache.
UncachedIgnoringCache(texts, cache) == [i \in 1..Len(texts) |-> i]

Uncached(texts, cache) == SelectSeq([i \in 1..Len(texts) |-> i],
                                    LAMBDA i : texts[i] \notin DOMAIN cache)

\* lines 325-328: embeddings after the scan, the cached vectors filled in.
Scanned(texts, cache) ==
    [i \in 1..Len(texts) |-> IF texts[i] \in DOMAIN cache THEN cache[texts[i]] ELSE None]

\* line 360 (and 334): np.array(embeddings, dtype="float32").  A list of None
\* only converts to an array of NaN; a list mixing None and vectors raises.
ArrayPc(embs) ==
    IF \A i \in DOMAIN embs : embs[i] # None THEN "returned"
    ELSE IF \A i \in DOMAIN embs : embs[i] = None THEN "returned"
    ELSE "raised_array"

ArrayOf(embs) ==
    IF \A i \in DOMAIN embs : embs[i] = None
    THEN [i \in DOMAIN embs |-> NaN]
    ELSE embs

\* lines 316-335: the call up to the first batch.
EmbedBegin(raw) ==
    LET texts == [i \in 1..Len(raw) |-> clean_for_embedding(raw[i])]
        idxs  == Uncached(texts, embedding_cache)
        embs  == Scanned(texts, embedding_cache)
    IN  /\ e_texts' = texts
        /\ e_idxs' = idxs
        /\ e_embeddings' = embs
        /\ e_batch_start' = 0
        /\ e_retry' = 0
        /\ e_calls' = <<>>
        /\ e_cache0' = embedding_cache
        /\ e_pc' = IF Len(idxs) = 0 THEN "returned" ELSE "batch"
        /\ UNCHANGED embedding_cache

\* lines 337-339
batch_end_overlong == Min(e_batch_start + EMBEDDING_BATCH_SIZE + 1, Len(e_idxs))

batch_end == Min(e_batch_start + EMBEDDING_BATCH_SIZE, Len(e_idxs))
batch_idxs == SubSeq(e_idxs, e_batch_start + 1, batch_end)
batch_texts == [j \in 1..Len(batch_idxs) |-> e_texts[batch_idxs[j]]]

\* line 336: the next iteration of the for loop, or line 360 after the last one.
NextBatch(embs) ==
    IF e_batch_start + EMBEDDING_BATCH_SIZE < Len(e_idxs)
    THEN /\ e_batch_start' = e_batch_start + EMBEDDING_BATCH_SIZE
         /\ e_retry' = 0
         /\ e_embeddings' = embs
         /\ e_pc' = "batch"
    ELSE /\ e_batch_start' = e_batch_start
         /\ e_retry' = e_retry
         /\ e_embeddings' = ArrayOf(embs)
         /\ e_pc' = ArrayPc(embs)

\* lines 345-351: the provider answers; every vector is stored and cached.
EmbedBatchOk(v) ==
    /\ e_pc = "batch"
    /\ e_retry < max_retries
    /\ e_calls' = Append(e_calls, [start |-> e_batch_start, texts |-> batch_texts,
                                   outcome |-> "ok", version |-> v])
    /\ embedding_cache' =
           [k \in DOMAIN embedding_cache \cup Range(batch_texts) |->
               IF k \in Range(batch_texts) THEN Vec(k, v) ELSE embedding_cache[k]]
    /\ NextBatch([i \in DOMAIN e_embeddings |->
                     IF i \in Range(batch_idxs) THEN Vec(e_texts[i], v)
                     ELSE e_embeddings[i]])
    /\ UNCHANGED <<e_texts, e_idxs, e_cache0>>
    /\ UNCHANGED notEmbedVars

\* lines 352-357: a rate-limit failure; the while loop ends after max_retries of them.
EmbedBatchRateLimit ==
    /\ e_pc = "batch"
    /\ e_retry < max_retries
    /\ e_calls' = Append(e_calls, [start |-> e_batch_start, texts |-> batch_texts,
                                   outcome |-> "rate", version |-> 0])
    /\ IF e_retry + 1 < max_retries
       THEN /\ e_retry' = e_retry + 1
            /\ UNCHANGED <<e_batch_start, e_embeddings, e_pc>>
       ELSE NextBatch(e_embeddings)
    /\ UNCHANGED <<embedding_cache, e_texts, e_idxs, e_cache0>>
    /\ UNCHANGED notEmbedVars

\* lines 358-359: any other failure is raised to the caller.
EmbedBatchOtherError ==
    /\ e_pc = "batch"
    /\ e_retry < max_retries
    /\ e_calls' = Append(e_calls, [start |-> e_batch_start, texts |-> batch_texts,
                                   outcome |-> "other", version |-> 0])
    /\ e_pc' = "raised"
    /\ UNCHANGED <<embedding_cache, e_texts, e_idxs, e_embeddings, e_batch_start,
                   e_retry, e_cache0>>
    /\ UNCHANGED notEmbedVars

\* ------------------------------------------------- SpecEmbed: embed alone
EmbedInputs ==
    UNION {[1..n -> RawTexts] : n \in 0..MaxShort}
    \cup {[i \in 1..n |-> IF i = p THEN b ELSE a] :
            n \in (EMBEDDING_BATCH_SIZE + 1)..(EMBEDDING_BATCH_SIZE + MaxExtra),
            p \in 1..(EMBEDDING_BATCH_SIZE + MaxExtra),
            a \in RawTexts, b \in RawTexts}

EmbedDone == e_pc \in {"returned", "raised", "raised_array"}

\* The caller has taken the array or the exception; the locals of the call are gone.
EmbedForget ==
    /\ e_texts' = <<>>
    /\ e_idxs' = <<>>
    /\ e_embeddings' = <<>>
    /\ e_batch_start' = 0
    /\ e_retry' = 0
    /\ e_pc' = "idle"
    /\ e_calls' = <<>>
    /\ UNCHANGED <<embedding_cache, e_cache0>>

\* No embed call is in progress.
EmbedIdle ==
    /\ e_texts = <<>>
    /\ e_idxs = <<>>
    /\ e_embeddings = <<>>
    /\ e_batch_start = 0
    /\ e_retry = 0
    /\ e_pc = "idle"
    /\ e_calls = <<>>
    /\ e_cache0 = embedding_cache

InitEmbed ==
    /\ embedding_cache \in ValidCaches
    /\ EmbedIdle
    /\ QueryIdle
    /\ SearcherEmpty
    /\ HybridIdle
    /\ RerankIdle
    /\ RunIdle
    /\ ContextIdle
    /\ SearchIdle
    /\ LoadIdle

CallEmbed ==
    /\ e_pc = "idle"
    /\ \E raw \in EmbedInputs : EmbedBegin(raw)
    /\ UNCHANGED notEmbedVars

EmbedReturn ==
    /\ EmbedDone
    /\ EmbedForget
    /\ UNCHANGED notEmbedVars

NextEmbed ==
    \/ CallEmbed
    \/ EmbedReturn
    \/ \E v \in Versions : EmbedBatchOk(v)
    \/ EmbedBatchRateLimit
    \/ EmbedBatchOtherError

SpecEmbed == InitEmbed /\ [][NextEmbed]_vars

\* ------------------------------------------------ embed: the claims C4-C7
\* The offsets (into to_embed) at which the batches of the call start.
BatchStarts == {b \in 0..Len(e_idxs) : b % EMBEDDING_BATCH_SIZE = 0 /\ b < Len(e_idxs)}

\* The offset of the batch that holds input position i (an uncached position).
BatchOfPosition(i) ==
    LET j == CHOOSE r \in DOMAIN e_idxs : e_idxs[r] = i
    IN  ((j - 1) \div EMBEDDING_BATCH_SIZE) * EMBEDDING_BATCH_SIZE

CallsOf(b) == {k \in DOMAIN e_calls : e_calls[k].start = b}

\* C4: whenever embed returns normally it returns one vector per input text, in
\* input order: the cached vector for a text cached when the call started, else
\* the vector the provider returned for that text.
C4_OneVectorPerText ==
    e_pc = "returned" =>
        /\ Len(e_embeddings) = Len(e_texts)
        /\ \A i \in DOMAIN e_texts :
              IF e_texts[i] \in DOMAIN e_cache0
              THEN e_embeddings[i] = e_cache0[e_texts[i]]
              ELSE \E k \in CallsOf(BatchOfPosition(i)) :
                      /\ e_calls[k].outcome = "ok"
                      /\ e_embeddings[i] = Vec(e_texts[i], e_calls[k].version)

\* C5: a rate-limited batch is tried at most max_retries times, embed never
\* returns normally while a batch has not been embedded, and a failure that is
\* not a rate limit is raised at once.
C5_ExhaustedRetriesPropagate ==
    /\ \A b \in BatchStarts : Cardinality(CallsOf(b)) <= max_retries
    /\ e_pc = "returned" =>
          \A b \in BatchStarts : \E k \in CallsOf(b) : e_calls[k].outcome = "ok"
    /\ \A k \in DOMAIN e_calls :
          e_calls[k].outcome = "other" => (k = Len(e_calls) /\ e_pc = "raised")

\* The texts of the input that were not cached when the call started.
UncachedTexts == {e_texts[i] : i \in Range(e_idxs)}

CachedNeverSent ==
    /\ \A k \in DOMAIN e_calls : Range(e_calls[k].texts) \cap DOMAIN e_cache0 = {}
    /\ (Range(e_texts) \subseteq DOMAIN e_cache0) => e_calls = <<>>

\* C6 as stated: a cached text is never sent, an uncached text is sent in exactly
\* one batch, and that batch is called once unless it is rate limited.
C6_EachUncachedTextInOneBatch ==
    /\ CachedNeverSent
    /\ (e_pc \in {"returned", "raised", "raised_array"}) =>
          \A t \in UncachedTexts :
              Cardinality({e_calls[k].start : k \in
                  {n \in DOMAIN e_calls : t \in Range(e_calls[n].texts)}}) = 1

\* C6 as amended: a cached text is never sent; the uncached positions are cut, in
\* order, into batches of at most EMBEDDING_BATCH_SIZE; the batches are sent in
\* order, each at most max_retries times and again only after a rate-limit
\* failure of the same batch; every uncached position is sent in exactly one
\* batch unless an earlier failure that is no rate limit ended the call.
C6_EachUncachedPositionInOneBatch ==
    /\ CachedNeverSent
    /\ \A k \in DOMAIN e_calls :
          LET c == e_calls[k]
              last == Min(c.start + EMBEDDING_BATCH_SIZE, Len(e_idxs))
          IN  /\ c.start \in BatchStarts
              /\ Len(c.texts) \in 1..EMBEDDING_BATCH_SIZE
              /\ c.texts = [j \in 1..(last - c.start) |-> e_texts[e_idxs[c.start + j]]]
              /\ k = 1 => c.start = 0
              /\ k > 1 =>
                    \/ /\ c.start = e_calls[k - 1].start
                       /\ e_calls[k - 1].outcome = "rate"
                    \/ /\ c.start = e_calls[k - 1].start + EMBEDDING_BATCH_SIZE
                       /\ \/ e_calls[k - 1].outcome = "ok"
                          \/ Cardinality(CallsOf(e_calls[k - 1].start)) = max_retries
    /\ \A b \in BatchStarts : Cardinality(CallsOf(b)) <= max_retries
    /\ (e_pc \in {"returned", "raised_array"}) =>
          \A b \in BatchStarts : CallsOf(b) # {}
    /\ e_pc = "raised" =>
          \A b \in BatchStarts : b > e_calls[Len(e_calls)].start => CallsOf(b) = {}

\* C6 happens: a call with a cached text and two batches returned after a retry.
C6_Witness ==
    /\ e_pc = "returned"
    /\ Range(e_texts) \cap DOMAIN e_cache0 # {}
    /\ Cardinality(BatchStarts) = 2
    /\ \E k \in DOMAIN e_calls : e_calls[k].outcome = "rate"

\* C7 as stated: an entry of the cache is never overwritten or removed.
C7_EntryNeverOverwritten ==
    [][\A k \in DOMAIN embedding_cache :
          /\ k \in DOMAIN embedding_cache'
          /\ embedding_cache'[k] = embedding_cache[k]]_vars

\* C7 as amended: an entry is never removed, and an entry that was in the cache
\* when the embed call in progress started is never overwritten; only an entry
\* first written during a call can be written again in that call.
C7_EntryOfEarlierCallNeverOverwritten ==
    [][\A k \in DOMAIN embedding_cache :
          /\ k \in DOMAIN embedding_cache'
          /\ k \in DOMAIN e_cache0' => embedding_cache'[k] = embedding_cache[k]]_vars

\* C7 happens: a call holding a cached text returned while the provider answered
\* with another vector for that text than the cached one.
C7_Witness ==
    /\ e_pc = "returned"
    /\ \E t \in Range(e_texts) \cap DOMAIN e_cache0 :
          \E k \in DOMAIN e_calls :
              /\ e_calls[k].outcome = "ok"
              /\ Vec(t, e_calls[k].version) # e_cache0[t]
              /\ embedding_cache[t] = e_cache0[t]

\* ------------------------------------------------ query enhancer (149-186)
\* A query is a sequence of characters.  The characters of the model: letters
\* x a n d and their capitals, the digit 1, space, tab, comma and the double quote.
IsSpace(c) == c \in {" ", "\t"}
IsUpper(c) == c \in {"X", "A", "N", "D"}
IsDigit(c) == c = "1"
IsWordChar(c) == c \in {"x", "a", "n", "d", "X", "A", "N", "D", "1"}

\* str.lower
Lower(c) == CASE c = "X" -> "x" [] c = "A" -> "a" [] c = "N" -> "n" [] c = "D" -> "d"
              [] OTHER -> c
LowerStr(s) == [i \in 1..Len(s) |-> Lower(s[i])]

\* pat in s
Contains(s, pat) ==
    \E i \in 1..(Len(s) - Len(pat) + 1) : SubSeq(s, i, i + Len(pat) - 1) = pat

\* The first index >= i of s that holds no whitespace (Len(s) + 1 when none).
RECURSIVE SkipSpace(_, _)
SkipSpace(s, i) == IF i <= Len(s) /\ IsSpace(s[i]) THEN SkipSpace(s, i + 1) ELSE i

\* The index after a match of \s+and\s+|,\s* (IGNORECASE) that starts at i, or 0.
DelimiterEnd(s, i) ==
    IF IsSpace(s[i])
    THEN LET j == SkipSpace(s, i)
         IN  IF /\ j + 3 <= Len(s)
                /\ LowerStr(SubSeq(s, j, j + 2)) = <<"a", "n", "d">>
                /\ IsSpace(s[j + 3])
             THEN SkipSpace(s, j + 3)
             ELSE 0
    ELSE IF s[i] = "," THEN SkipSpace(s, i + 1)
    ELSE 0

\* line 156: re.split(r'\s+and\s+|,\s*', query, flags=re.IGNORECASE)
RECURSIVE SplitFrom(_, _, _)
SplitFrom(s, i, start) ==
    IF i > Len(s) THEN <<SubSeq(s, start, Len(s))>>
    ELSE LET e == DelimiterEnd(s, i)
         IN  IF e = 0 THEN SplitFrom(s, i + 1, start)
             ELSE <<SubSeq(s, start, i - 1)>> \o SplitFrom(s, e, e)

re_split(s) == SplitFrom(s, 1, 1)

\* str.strip
Strip(s) ==
    LET keep == {i \in 1..Len(s) : ~IsSpace(s[i])}
    IN  IF keep = {} THEN <<>>
        ELSE SubSeq(s, CHOOSE i \in keep : \A j \in keep : i <= j,
                       CHOOSE i \in keep : \A j \in keep : i >= j)

\* The index after the run of non-whitespace that starts at i.
RECURSIVE SkipWord(_, _)
SkipWord(s, i) == IF i <= Len(s) /\ ~IsSpace(s[i]) THEN SkipWord(s, i + 1) ELSE i

\* str.split(): the maximal runs of non-whitespace, in order.
RECURSIVE WordsFrom(_, _)
WordsFrom(s, i) ==
    LET b == SkipSpace(s, i)
    IN  IF b > Len(s) THEN <<>>
        ELSE <<SubSeq(s, b, SkipWord(s, b) - 1)>> \o WordsFrom(s, SkipWord(s, b))

split(s) == WordsFrom(s, 1)

\* line 169: re.findall(r'"([^"]+)"', query)
RECURSIVE QuotedFrom(_, _)
QuotedFrom(s, i) ==
    IF i > Len(s) THEN <<>>
    ELSE IF s[i] # "\"" THEN QuotedFrom(s, i + 1)
    ELSE LET close == {j \in (i + 1)..Len(s) : s[j] = "\""}
             j == CHOOSE c \in close : \A d \in close : c <= d
         IN  IF close = {} THEN <<>>
             ELSE IF j = i + 1 THEN QuotedFrom(s, i + 1)
             ELSE <<SubSeq(s, i + 1, j - 1)>> \o QuotedFrom(s, j + 1)

\* The index after the run of digits that starts at i.
RECURSIVE SkipDigits(_, _)
SkipDigits(s, i) == IF i <= Len(s) /\ IsDigit(s[i]) THEN SkipDigits(s, i + 1) ELSE i

\* line 178: re.findall(r'\b\d+\.?\d*%?\b', query), for the characters of the
\* model (no "." and no "%"): the runs of digits with a word boundary at both ends.
RECURSIVE NumbersFrom(_, _)
NumbersFrom(s, i) ==
    IF i > Len(s) THEN <<>>
    ELSE IF IsDigit(s[i]) /\ (i = 1 \/ ~IsWordChar(s[i - 1]))
         THEN LET e == SkipDigits(s, i)
              IN  IF e > Len(s) \/ ~IsWordChar(s[e])
                  THEN <<SubSeq(s, i, e - 1)>> \o NumbersFrom(s, e)
                  ELSE NumbersFrom(s, i + 1)
         ELSE NumbersFrom(s, i + 1)

\* lines 174-175: the first 5 words that start with a capital and are longer than 2.
Caps(words) ==
    LET caps == SelectSeq(words, LAMBDA w : IsUpper(w[1]) /\ Len(w) > 2)
    IN  SubSeq(caps, 1, Min(5, Len(caps)))

\* " ".join(terms)
RECURSIVE Join(_)
Join(terms) ==
    IF terms = <<>> THEN <<>>
    ELSE IF Len(terms) = 1 THEN terms[1]
    ELSE terms[1] \o <<" ">> \o Join(Tail(terms))

\* line 160 with the mutation: parts of 10 characters are kept too.
IsMeaningfulFrom10(part) == Len(part) >= 10

\* line 160
IsMeaningful(part) == Len(part) > 10

\* lines 154-161: the variants of a compound question, weight 0.7 (in tenths: 7).
SplitVariants(query) ==
    IF Contains(LowerStr(query), <<" ", "a", "n", "d", " ">>)
       \/ Contains(LowerStr(query), <<",", " ">>)
    THEN LET parts == re_split(query)
             stripped == [i \in 1..Len(parts) |-> Strip(parts[i])]
         IN  IF Len(parts) > 1 /\ Len(parts) <= 3
             THEN [i \in 1..Len(SelectSeq(stripped, IsMeaningful)) |->
                      [text |-> SelectSeq(stripped, IsMeaningful)[i], weight |-> 7]]
             ELSE <<>>
    ELSE <<>>

\* lines 164-184: the simplified variant of a long question, weight 0.5 (5).
SimplifiedVariants(query) ==
    IF Len(split(query)) > 20
    THEN LET key_terms == QuotedFrom(query, 1) \o Caps(split(query))
                             \o NumbersFrom(query, 1)
             simplified == Join(key_terms)
         IN  IF key_terms # <<>> /\ simplified # query /\ Len(simplified) > 5
             THEN <<[text |-> simplified, weight |-> 5]>>
             ELSE <<>>
    ELSE <<>>

\* line 186 with the mutation: one variant more is returned.
Truncate4(variants) == SubSeq(variants, 1, Min(4, Len(variants)))

\* line 186: variants[:3]
Truncate(variants) == SubSeq(variants, 1, Min(3, Len(variants)))

\* lines 149-186
generate_query_variants(query) ==
    Truncate(<<[text |-> query, weight |-> 10]>>
             \o SplitVariants(query) \o SimplifiedVariants(query))

\* ------------------------------------------------------------- SpecQuery
Rep(c, n) == [i \in 1..n |-> c]

\* The words a modelled question is made of: a word of 11 and one of 10
\* characters, a capitalised word and a number; and what stands between two words.
HeadWords == {Rep("x", 11), Rep("x", 10), <<"X", "x", "x">>, <<"1", "1">>}
Separators == {<<" ">>, <<",", " ">>, <<",">>, <<" ", "A", "n", "d", " ">>}

\* The questions of at most n chosen words, any separator between two words.
RECURSIVE Heads(_)
Heads(n) ==
    IF n = 0 THEN {<<>>}
    ELSE IF n = 1 THEN {<<>>} \cup HeadWords
    ELSE Heads(n - 1)
         \cup {h \o sep \o w : h \in Heads(n - 1) \ {<<>>}, sep \in Separators,
                               w \in HeadWords}

\* n more words " x".
RECURSIVE Filler(_)
Filler(n) == IF n = 0 THEN <<>> ELSE <<" ", "x">> \o Filler(n - 1)

\* What follows the chosen words: nothing, 20 words, or 19 words and a quoted phrase.
Fillers == {<<>>, Filler(20), Filler(19) \o <<" ", "\"", "x", "x", "\"">>}

Queries == {h \o f : h \in Heads(MaxHead), f \in Fillers}

InitQuery ==
    /\ q_query \in Queries
    /\ q_variants = <<>>
    /\ embedding_cache = <<>>
    /\ EmbedIdle
    /\ SearcherEmpty
    /\ HybridIdle
    /\ RerankIdle
    /\ RunIdle
    /\ ContextIdle
    /\ SearchIdle
    /\ LoadIdle

\* retrieve_with_hybrid, line 616: the enhancer is applied to the question.
GenerateQueryVariants ==
    /\ q_variants = <<>>
    /\ q_variants' = generate_query_variants(q_query)
    /\ UNCHANGED <<q_query, embedVars, searcherVars, hybridVars, rerankVars, runVars, contextVars, searchVars, loadVars>>

NextQuery == GenerateQueryVariants

SpecQuery == InitQuery /\ [][NextQuery]_vars

\* ------------------------------------------------------------ the claim C8
HasMarker(query) ==
    \/ Contains(LowerStr(query), <<" ", "a", "n", "d", " ">>)
    \/ Contains(LowerStr(query), <<",", " ">>)

\* The parts of the query longer than 10 characters, stripped, in their order.
LongParts(query) ==
    SelectSeq([i \in 1..Len(re_split(query)) |-> Strip(re_split(query)[i])],
              LAMBDA part : Len(part) > 10)

Weights(variants) == [i \in 1..Len(variants) |-> variants[i].weight]

\* C8: the enhancer returns 1 to 3 variants, the first is (question, 1.0), then
\* come the split parts longer than 10 characters at 0.7 in their order (only for
\* a question with a conjunction marker that splits into 2 or 3 parts), then the
\* simplification at 0.5 (only for more than 20 words), cut after 3 variants; a
\* question of two parts longer than 10 characters yields both parts at 0.7.
C8_QueryVariants ==
    q_variants # <<>> =>
        LET parts == re_split(q_query)
            long == LongParts(q_query)
            sevens == SelectSeq(q_variants, LAMBDA v : v.weight = 7)
            fives == SelectSeq(q_variants, LAMBDA v : v.weight = 5)
        IN  /\ Len(q_variants) \in 1..3
            /\ q_variants[1] = [text |-> q_query, weight |-> 10]
            /\ \A i \in 2..Len(q_variants) :
                  /\ q_variants[i].weight \in {7, 5}
                  /\ q_variants[i].weight <= q_variants[i - 1].weight
            /\ Len(fives) <= 1
            /\ IF HasMarker(q_query) /\ Len(parts) \in 2..3
               THEN /\ Len(sevens) = Min(2, Len(long))
                    /\ \A i \in 1..Len(sevens) : sevens[i].text = long[i]
               ELSE sevens = <<>>
            /\ fives # <<>> => Len(split(q_query)) > 20
            /\ (HasMarker(q_query) /\ Len(parts) = 2 /\ Len(long) = 2) =>
                  q_variants = <<[text |-> q_query, weight |-> 10],
                                 [text |-> Strip(parts[1]), weight |-> 7],
                                 [text |-> Strip(parts[2]), weight |-> 7]>>

\* C8 happens: a question of more than 20 words with two long parts and key
\* terms, whose simplification is cut off by the limit of 3 variants.
C8_Witness ==
    /\ Weights(q_variants) = <<10, 7, 7>>
    /\ Len(split(q_query)) > 20
    /\ SimplifiedVariants(q_query) # <<>>

\* ------------------------------------------- hybrid search, RRF (409-470)
\* A score is a fraction n/d, so that 1 / (k + rank + 1) is exact.
Frac(n, d) == [n |-> n, d |-> d]
FracAdd(x, y) == Frac(x.n * y.d + y.n * x.d, x.d * y.d)
FracEq(x, y) == x.n * y.d = y.n * x.d
FracLess(x, y) == x.n * y.d < y.n * x.d

\* line 435: k = 60
k == 60

\* lines 441, 449, 453 with the mutation: the rank counts from 1.
RRFOneBased(rank) == Frac(1, k + rank + 2)

\* lines 441, 449, 453: 1 / (k + rank + 1), rank counted from 0
RRF(rank) == Frac(1, k + rank + 1)

\* list.sort(key=score, reverse=True) and sorted(...): stable, descending.
RECURSIVE SortedDesc(_)
SortedDesc(items) ==
    IF items = <<>> THEN <<>>
    ELSE LET front == SortedDesc(SubSeq(items, 1, Len(items) - 1))
             x == items[Len(items)]
             before == SelectSeq(front, LAMBDA y : ~FracLess(y.score, x.score))
             after == SelectSeq(front, LAMBDA y : FracLess(y.score, x.score))
         IN  before \o <<x>> \o after

Prefix(s, n) == SubSeq(s, 1, Min(n, Len(s)))

Ids(items) == [i \in 1..Len(items) |-> items[i].id]

\* The position of id in the list of ids (0 when absent).
IndexOf(ids, id) ==
    IF \E i \in 1..Len(ids) : ids[i] = id
    THEN CHOOSE i \in 1..Len(ids) : ids[i] = id
    ELSE 0

\* lines 418-432: the lexical results, scores being what get_scores returned.
Bm25Results(scores, id_map, payloads, doc_ids, limit) ==
    LET all == [i \in 1..Len(scores) |->
                   [id |-> IF i \in DOMAIN id_map THEN id_map[i] ELSE None,
                    score |-> Frac(scores[i], 1)]]
        kept == SelectSeq(all, LAMBDA r :
                    /\ r.score.n > 0
                    /\ r.id # None
                    /\ r.id \in DOMAIN payloads
                    /\ payloads[r.id].doc_id \in doc_ids)
    IN  Prefix(SortedDesc(kept), limit)

\* lines 434-456: rrf_scores, in the order the dict received its keys.
RrfScores(vector_results, bm25_results) ==
    LET vids == Ids(vector_results)
        bids == Ids(bm25_results)
        fromVector == [i \in 1..Len(vids) |->
            LET j == IndexOf(bids, vids[i])
            IN  [id |-> vids[i],
                 score |-> IF j = 0 THEN RRF(i - 1) ELSE FracAdd(RRF(i - 1), RRF(j - 1)),
                 vector_score |-> vector_results[i].score,
                 bm25_score |-> IF j = 0 THEN 0 ELSE bm25_results[j].score.n]]
        onlyBm25 == SelectSeq([j \in 1..Len(bids) |->
                                  [id |-> bids[j], score |-> RRF(j - 1),
                                   vector_score |-> 0,
                                   bm25_score |-> bm25_results[j].score.n]],
                              LAMBDA r : IndexOf(vids, r.id) = 0)
    IN  fromVector \o onlyBm25

\* lines 409-470; without an index the vector results pass through (410-412).
hybrid_search(index, id_map, payloads, scores, vector_results, doc_ids, limit) ==
    IF index = <<>> THEN Prefix(vector_results, limit)
    ELSE Prefix(SortedDesc(RrfScores(vector_results,
                    Bm25Results(scores, id_map, payloads, doc_ids, limit))), limit)

\* ------------------------------------------------------------ SpecHybrid
Scores == {0, 1, 2}

\* The searcher after build_bm25_index(chunks, chunk_ids, payloads) as
\* upsert_chunks_to_qdrant calls it (lines 517-559): chunk i of the request has
\* the identifier of (its document, i - 1).
Built(chunks, docs) ==
    /\ bm25_index = <<chunks>>
    /\ bm25_corpus = chunks
    /\ bm25_id_map = [i \in 1..Len(chunks) |-> ChunkId(sha1(docs[i]), i - 1)]
    /\ chunk_id_to_payload =
           [id \in {ChunkId(sha1(docs[i]), i - 1) : i \in 1..Len(chunks)} |->
               LET i == CHOOSE j \in 1..Len(chunks) : ChunkId(sha1(docs[j]), j - 1) = id
               IN  [doc_id |-> sha1(docs[i]), text |-> chunks[i]]]

\* The ranked lists without repetition over the identifiers S, of at most n entries;
\* the vector score falls with the rank.
Rankings(S, n) ==
    {[i \in 1..Len(f) |-> [id |-> f[i], score |-> 9 - i]] :
        f \in {g \in UNION {[1..m -> S] : m \in 0..n} :
                  \A a, b \in DOMAIN g : a # b => g[a] # g[b]}}

InitHybrid ==
    /\ \E n \in 0..MaxCorpus : \E docs \in [1..n -> Docs] :
          /\ IF n = 0 THEN SearcherEmpty ELSE Built([i \in 1..n |-> 1], docs)
          /\ \E limit \in 1..(MaxCorpus + 1) :
             \E scores \in [1..n -> Scores] :
             \E doc_ids \in {{1}, {1, 2}} :
             \E vr \in Rankings({ChunkId(sha1(docs[i]), i - 1) : i \in 1..n}
                                 \cup {ChunkId(1, n)}, limit) :
                h_args = [scores |-> scores, vector_results |-> vr,
                          doc_ids |-> doc_ids, limit |-> limit]
    /\ h_result = <<>>
    /\ embedding_cache = <<>>
    /\ EmbedIdle
    /\ QueryIdle
    /\ RerankIdle
    /\ RunIdle
    /\ ContextIdle
    /\ SearchIdle
    /\ LoadIdle

\* retrieve_with_hybrid, line 622 (and 623 without an index)
HybridSearch ==
    /\ h_result = <<>>
    /\ h_result' = <<hybrid_search(bm25_index, bm25_id_map, chunk_id_to_payload,
                                   h_args.scores, h_args.vector_results,
                                   h_args.doc_ids, h_args.limit)>>
    /\ UNCHANGED <<h_args, searcherVars, embedVars, queryVars, rerankVars, runVars, contextVars, searchVars, loadVars>>

NextHybrid == HybridSearch

SpecHybrid == InitHybrid /\ [][NextHybrid]_vars

\* ------------------------------------------------------------ the claim C9
\* The lexical list hybrid_search fuses: filtered, sorted and truncated.
LexicalList ==
    Bm25Results(h_args.scores, bm25_id_map, chunk_id_to_payload, h_args.doc_ids,
                h_args.limit)

\* The sum of the contributions 1/(60 + rank + 1) of the lists that hold id.
Contributions(id) ==
    LET v == IndexOf(Ids(h_args.vector_results), id)
        b == IndexOf(Ids(LexicalList), id)
    IN  IF v > 0 /\ b > 0 THEN FracAdd(Frac(1, 60 + v), Frac(1, 60 + b))
        ELSE IF v > 0 THEN Frac(1, 60 + v)
        ELSE IF b > 0 THEN Frac(1, 60 + b)
        ELSE Frac(0, 1)

InOneListOnly(id) ==
    (IndexOf(Ids(h_args.vector_results), id) > 0)
        # (IndexOf(Ids(LexicalList), id) > 0)

\* C9: with a lexical index, the fused score of a candidate is the sum of
\* 1/(k + rank + 1), k = 60, over the vector list and the lexical list; a
\* candidate first in both has 2/(k + 1), more than any candidate of one list
\* only; the output has at most n + m and at most limit entries, in descending
\* order of the fused score.
C9_ReciprocalRankFusion ==
    (h_result # <<>> /\ bm25_index # <<>>) =>
        LET out == h_result[1]
            vids == Ids(h_args.vector_results)
            bids == Ids(LexicalList)
        IN  /\ \A i \in 1..Len(out) :
                  /\ out[i].id \in Range(vids) \cup Range(bids)
                  /\ FracEq(out[i].score, Contributions(out[i].id))
                  /\ (vids # <<>> /\ bids # <<>> /\ out[i].id = vids[1]
                        /\ out[i].id = bids[1]) =>
                        /\ FracEq(out[i].score, Frac(2, 61))
                        /\ \A j \in 1..Len(out) :
                              InOneListOnly(out[j].id) =>
                                  FracLess(out[j].score, out[i].score)
            /\ \A i, j \in 1..Len(out) : i # j => out[i].id # out[j].id
            /\ Len(out) <= Len(vids) + Len(bids)
            /\ Len(out) <= h_args.limit
            /\ \A i \in 1..(Len(out) - 1) : ~FracLess(out[i].score, out[i + 1].score)

\* C9 happens: the output holds a candidate ranked first in both lists and a
\* candidate of one list only.
C9_Witness ==
    /\ h_result # <<>>
    /\ bm25_index # <<>>
    /\ h_args.vector_results # <<>>
    /\ LexicalList # <<>>
    /\ h_args.vector_results[1].id = LexicalList[1].id
    /\ \E i, j \in 1..Len(h_result[1]) :
          /\ h_result[1][i].id = LexicalList[1].id
          /\ InOneListOnly(h_result[1][j].id)

\* ------------------------------------------------------ rerank (626-655)
\* line 634: the reranker gets at most this many documents
RERANK_POOL == 100

\* lines 630, 655 with the mutation: the fallback is not truncated.
FallbackAll(cands, top_n) == cands

\* lines 630, 655: cands[:top_n]
Fallback(cands, top_n) == Prefix(cands, top_n)

\* lines 632-638: the candidates whose texts are sent.
cands_to_rerank(cands) == Prefix(cands, RERANK_POOL)

\* lines 647-652: the picked candidates, each with its relevance score.
Picked(pool, results) ==
    [i \in 1..Len(results) |->
        [pool[results[i].index + 1] EXCEPT !.rerank_score = results[i].relevance_score]]

\* lines 626-655.  co: whether a reranker is configured; outcome: what co.rerank
\* does, raise or return results.  sent: the candidates whose texts went out.
rerank_candidates(cands, top_n, co, outcome) ==
    IF cands = <<>> THEN [picked |-> <<>>, sent |-> <<>>]
    ELSE IF ~co THEN [picked |-> Fallback(cands, top_n), sent |-> <<>>]
    ELSE IF outcome.raises
         THEN [picked |-> Fallback(cands, top_n), sent |-> Ids(cands_to_rerank(cands))]
         ELSE [picked |-> Picked(cands_to_rerank(cands), outcome.results),
               sent |-> Ids(cands_to_rerank(cands))]

\* ------------------------------------------------------------ SpecRerank
\* The candidates 1..n as process_question passes them: no rerank score yet.
Candidates(n) == [i \in 1..n |-> [id |-> i, rerank_score |-> None]]

\* What co.rerank(documents, top_n) can answer for n documents: top_n results
\* with different indexes, the relevance falling; the indexes tried are the
\* first two and the last two documents.
RerankResponses(n, top_n) ==
    {[i \in 1..top_n |-> [index |-> f[i], relevance_score |-> 9 - i]] :
        f \in {g \in [1..top_n -> {0, 1, n - 2, n - 1} \cap 0..(n - 1)] :
                  \A a, b \in 1..top_n : a # b => g[a] # g[b]}}

InitRerank ==
    /\ \E n \in (0..MaxCands) \cup ((RERANK_POOL - 1)..(RERANK_POOL + MaxOver)) :
       \E top_n \in 1..(MaxCands + 1) :
       \E co \in BOOLEAN :
       \E outcome \in {[raises |-> TRUE, results |-> <<>>]}
                      \cup {[raises |-> FALSE, results |-> res] :
                              res \in RerankResponses(Min(n, RERANK_POOL),
                                                      Min(top_n, Min(n, RERANK_POOL)))} :
          r_args = [cands |-> Candidates(n), top_n |-> top_n, co |-> co,
                    outcome |-> outcome]
    /\ r_result = <<>>
    /\ embedding_cache = <<>>
    /\ EmbedIdle
    /\ QueryIdle
    /\ SearcherEmpty
    /\ HybridIdle
    /\ RunIdle
    /\ ContextIdle
    /\ SearchIdle
    /\ LoadIdle

\* process_question, line 728
Rerank ==
    /\ r_result = <<>>
    /\ r_result' = <<rerank_candidates(r_args.cands, r_args.top_n, r_args.co,
                                       r_args.outcome)>>
    /\ UNCHANGED <<r_args, embedVars, queryVars, searcherVars, hybridVars, runVars, contextVars, searchVars, loadVars>>

NextRerank == Rerank

SpecRerank == InitRerank /\ [][NextRerank]_vars

\* ----------------------------------------------------------- the claim C10
\* C10: rerank returns exactly candidates[:top_n], unchanged, when no reranker
\* is configured and when the reranker call fails; it always returns at most
\* top_n elements, each one of the input candidates; at most the first 100
\* candidates are sent to the reranker.
C10_RerankFallback ==
    r_result # <<>> =>
        LET out == r_result[1].picked
            sent == r_result[1].sent
            cands == r_args.cands
        IN  /\ (~r_args.co \/ r_args.outcome.raises) =>
                  /\ Len(out) = Min(r_args.top_n, Len(cands))
                  /\ \A i \in 1..Len(out) : out[i] = cands[i]
            /\ Len(out) <= r_args.top_n
            /\ \A i \in 1..Len(out) : \E j \in 1..Len(cands) : out[i].id = cands[j].id
            /\ Len(sent) <= 100
            /\ \A i \in 1..Len(sent) : sent[i] = cands[i].id
            /\ ~r_args.co => sent = <<>>

\* C10 happens: a configured reranker fails on more than 100 candidates.
C10_Witness ==
    /\ r_result # <<>>
    /\ r_args.co
    /\ r_args.outcome.raises
    /\ Len(r_args.cands) > 100
    /\ Len(r_args.cands) > r_args.top_n

\* ----------------------------------------------------- POST /run (805-878)
\* The answers the code puts in place of a real one.
EXTRACTION_FAILED == "Document processing failed. No text could be extracted."
PROCESSING_ERROR == "Processing error. Please try again."
ERROR_ANSWER == "Error processing the question. Please try again."
NOT_AVAILABLE == "The requested information is not available in the provided documents."

\* The answer the generator gives to question q out of a non-empty context.
GeneratedAnswer(q) == <<"answer to question 1", "answer to question 2">>[q]

Questions == {1, 2}

\* payload.questions: no question, one, or both in either order.
QuestionLists == {<<>>, <<1>>, <<1, 2>>, <<2, 1>>}

\* payload.documents as a list.
Urls == {<<>>, <<1>>, <<2>>, <<1, 2>>}

Bearer == <<"B", "e", "a", "r", "e", "r", " ">>

\* The Authorization header: absent, another scheme, "Bearer " and nothing,
\* a wrong token, the configured token.
Authorizations ==
    {[present |-> FALSE, value |-> <<>>],
     [present |-> TRUE, value |-> <<"B", "a", "s", "i", "c", " ", "k">>],
     [present |-> TRUE, value |-> Bearer],
     [present |-> TRUE, value |-> Bearer \o <<"x">>],
     [present |-> TRUE, value |-> Bearer \o <<"k">>]}

\* The requests: every header with one document and one question, and the
\* header with the configured token with every list of documents and questions.
Requests ==
    {[authorization |-> a, urls |-> <<1>>, questions |-> <<1>>] : a \in Authorizations}
    \cup {[authorization |-> [present |-> TRUE, value |-> Bearer \o <<"k">>],
           urls |-> u, questions |-> q] : u \in Urls, q \in QuestionLists}

\* str.startswith
startswith(s, prefix) == Len(s) >= Len(prefix) /\ SubSeq(s, 1, Len(prefix)) = prefix

\* fetch and the chunkers: a document that cannot be fetched or decoded.
Unreadable == -1

\* lines 808-812: the status the authentication ends the request with, 200 when
\* it lets the request through.  split()[1] of "Bearer " is an IndexError.
Authenticate(authorization, key) ==
    IF key = <<>> THEN 200
    ELSE IF ~authorization.present \/ authorization.value = <<>>
            \/ ~startswith(authorization.value, Bearer) THEN 401
    ELSE IF Len(split(authorization.value)) < 2 THEN 500
    ELSE IF split(authorization.value)[2] # key THEN 403
    ELSE 200

\* The text of chunk j (from 0) of the document at url.
ChunkText(url, j) == ((url + j) % 2) + 1

\* lines 297-313: the chunks and metas of the documents, in the order of urls;
\* count[i] is the number of chunks the i-th document yields.
RECURSIVE extract_chunks(_, _)
extract_chunks(urls, count) ==
    IF urls = <<>> THEN <<>>
    ELSE LET n == Len(urls)
         IN  extract_chunks(SubSeq(urls, 1, n - 1), count)
                 \o [j \in 1..count[n] |->
                        [text |-> ChunkText(urls[n], j - 1), source |-> urls[n]]]

\* lines 829, 878 with the mutation: one sentinel, whatever the questions.
SentinelsOnce(text, questions) == <<text>>

\* lines 829, 878: [text] * len(payload.questions)
Sentinels(text, questions) == [i \in 1..Len(questions) |-> text]

\* lines 767-769 with the mutation: the failure replaces the earlier answers too.
CaughtAll(previous) == [i \in 1..(Len(previous) + 1) |-> ERROR_ANSWER]

\* lines 767-769: the failure of one question is answered by the sentinel.
Caught(previous) == Append(previous, ERROR_ANSWER)

\* line 517
batch_size == 25

\* lines 520-521: Bc and Bm
Bc == SubSeq(run_chunks, u_i + 1, Min(u_i + batch_size, Len(run_chunks)))

\* lines 531-534: the identifiers of the chunks of the batch; global_idx_counter
\* is the position of the chunk in the request.
BatchIds == [j \in 1..Len(Bc) |-> ChunkId(sha1(Bc[j].source), u_i + j - 1)]

\* lines 536-542
Payload(chunk) == [doc_id |-> sha1(chunk.source), text |-> chunk.text]

\* The response leaves the handler; the locals of the request stay readable
\* until the next request.
Reply(status, list) ==
    /\ response' = [status |-> status, answers |-> list]
    /\ pc' = "idle"

\* HybridSearcher.build_bm25_index, lines 372-383 (the blob it writes, lines
\* 384-394, is read by the next process only).
build_bm25_index(texts, chunk_ids, payloads) ==
    /\ bm25_index' = <<texts>>
    /\ bm25_corpus' = texts
    /\ bm25_id_map' = [i \in 1..Len(texts) |-> chunk_ids[i]]
    /\ chunk_id_to_payload' =
           [id \in Range(chunk_ids) |->
               payloads[CHOOSE i \in 1..Len(texts) :
                           /\ chunk_ids[i] = id
                           /\ \A j \in 1..Len(texts) : chunk_ids[j] = id => j <= i]]

\* Import: the settings are read, hybrid_searcher.load_index() finds a blob
\* written by an earlier process (one chunk of document 1) or none (line 473).
Init ==
    /\ config \in [USE_HYBRID_SEARCH : BOOLEAN, skip : BOOLEAN,
                   HACKRX_API_KEY : {<<>>, <<"k">>}]
    /\ \/ SearcherEmpty /\ index_origin = "none"
       \/ Built(<<ChunkText(1, 0)>>, <<1>>) /\ index_origin = "disk"
    /\ pc = "idle"
    /\ request = NoRequest
    /\ run_chunks = <<>>
    /\ u_i = 0
    /\ u_chunk_ids = <<>>
    /\ answers = <<>>
    /\ response = NoResponse
    /\ qd_points = <<>>
    /\ q_log = <<>>
    /\ n_requests = 0
    /\ run_log = NoWork
    /\ embedding_cache = <<>>
    /\ EmbedIdle
    /\ QueryIdle
    /\ HybridIdle
    /\ RerankIdle
    /\ ContextIdle
    /\ SearchIdle
    /\ LoadIdle

\* lines 298-299: the documents fetch is called for, up to the first that fails.
Fetched(urls, count) ==
    IF \E i \in 1..Len(urls) : count[i] = Unreadable
    THEN SubSeq(urls, 1, CHOOSE i \in 1..Len(urls) :
                            /\ count[i] = Unreadable
                            /\ \A j \in 1..(i - 1) : count[j] # Unreadable)
    ELSE urls

\* line 828 with the mutation: the check is gone.
NoChunksIgnored(found) == FALSE

\* line 828: if not chunks
NoChunks(found) == found = <<>>

\* run, lines 805-832, up to the call of upsert_chunks_to_qdrant, and that call
\* where it returns at once (lines 511-513).  count: what extract_chunks finds
\* for each document, a number of chunks or Unreadable (fetch or decoding raises).
Run ==
    /\ pc = "idle"
    /\ response = NoResponse
    /\ n_requests < MaxRequests
    /\ \E req \in Requests :
       \E count \in [1..Len(req.urls) -> {Unreadable} \cup 0..MaxChunks] :
          LET urls == req.urls
              questions == req.questions
              status == Authenticate(req.authorization, config.HACKRX_API_KEY)
              found == extract_chunks(urls, count)
          IN  /\ request' = req
              /\ run_log' =
                    IF status # 200 \/ urls = <<>> \/ questions = <<>> THEN NoWork
                    ELSE [NoWork EXCEPT
                             !.fetched = Fetched(urls, count),
                             !.extraction =
                                 IF \E i \in 1..Len(urls) : count[i] = Unreadable
                                 THEN "raised" ELSE "done"]
              /\ IF status # 200
                 THEN /\ Reply(status, <<>>)
                      /\ run_chunks' = <<>>
                 ELSE IF urls = <<>> \/ questions = <<>>
                 THEN /\ Reply(400, <<>>)
                      /\ run_chunks' = <<>>
                 ELSE IF \E i \in 1..Len(urls) : count[i] = Unreadable
                 THEN /\ Reply(200, Sentinels(PROCESSING_ERROR, questions))
                      /\ run_chunks' = <<>>
                 ELSE IF NoChunks(found)
                 THEN /\ Reply(200, Sentinels(EXTRACTION_FAILED, questions))
                      /\ run_chunks' = <<>>
                 ELSE /\ run_chunks' = found
                      /\ response' = NoResponse
                      /\ pc' = IF config.skip THEN "questions" ELSE "upsert"
    /\ n_requests' = n_requests + 1
    /\ index_origin' = IF index_origin = "this" THEN "earlier" ELSE index_origin
    /\ answers' = <<>>
    /\ q_log' = <<>>
    /\ u_i' = 0
    /\ u_chunk_ids' = <<>>
    /\ UNCHANGED <<config, qd_points, searcherVars, embedVars, queryVars, hybridVars,
                   rerankVars, contextVars, searchVars, loadVars>>

\* upsert_chunks_to_qdrant, lines 519-522: the batch is handed to embed.
UpsertEmbed ==
    /\ pc = "upsert"
    /\ e_pc = "idle"
    /\ EmbedBegin([j \in 1..Len(Bc) |-> Bc[j].text])
    /\ run_log' = [run_log EXCEPT !.embedded = @ + 1]
    /\ UNCHANGED <<config, pc, request, run_chunks, u_i, u_chunk_ids, answers, response,
                   qd_points, index_origin, q_log, n_requests>>
    /\ UNCHANGED <<queryVars, searcherVars, hybridVars, rerankVars, contextVars, searchVars, loadVars>>

\* upsert_chunks_to_qdrant, lines 522-559, once embed has ended.  An exception of
\* embed, or of PointStruct on a vector that is NaN, ends the request in the
\* handler of run (lines 874-878); a failure of qd.upsert is caught (549-554).
UpsertPoints ==
    /\ pc = "upsert"
    /\ EmbedDone
    /\ EmbedForget
    /\ IF e_pc # "returned" \/ \E j \in DOMAIN e_embeddings : e_embeddings[j] = NaN
       THEN /\ Reply(200, Sentinels(PROCESSING_ERROR, request.questions))
            /\ UNCHANGED <<u_i, u_chunk_ids, qd_points, index_origin, searcherVars,
                           run_log>>
       ELSE /\ response' = response
            /\ run_log' = [run_log EXCEPT
                              !.upserted = @ + 1,
                              !.rebuilt = IF u_i + batch_size >= Len(run_chunks)
                                             /\ config.USE_HYBRID_SEARCH
                                          THEN @ + 1 ELSE @]
            /\ u_chunk_ids' = u_chunk_ids \o BatchIds
            /\ \E stored \in BOOLEAN :
                  qd_points' =
                      IF stored
                      THEN [id \in DOMAIN qd_points \cup Range(BatchIds) |->
                              IF id \in Range(BatchIds)
                              THEN Payload(Bc[IndexOf(BatchIds, id)])
                              ELSE qd_points[id]]
                      ELSE qd_points
            /\ IF u_i + batch_size < Len(run_chunks)
               THEN /\ u_i' = u_i + batch_size
                    /\ pc' = "upsert"
                    /\ UNCHANGED <<index_origin, searcherVars>>
               ELSE /\ u_i' = u_i
                    /\ pc' = "questions"
                    /\ IF config.USE_HYBRID_SEARCH
                       THEN /\ build_bm25_index(
                                   [i \in 1..Len(run_chunks) |-> run_chunks[i].text],
                                   u_chunk_ids \o BatchIds,
                                   [i \in 1..Len(run_chunks) |-> Payload(run_chunks[i])])
                            /\ index_origin' = "this"
                       ELSE UNCHANGED <<index_origin, searcherVars>>
    /\ UNCHANGED <<config, request, run_chunks, answers, q_log, n_requests,
                   queryVars, hybridVars, rerankVars, contextVars, searchVars, loadVars>>

\* What process_question (lines 716-748) can do for question q.  The query
\* embedding (line 570, not reached when the vector store is skipped) may raise
\* before the lexical index is read; the retrieval (lines 614-623) reads the
\* index when hybrid search is on and an index is set; no candidate gives the
\* fixed answer of line 724, candidates give what the generator returns, its
\* own sentinel included (lines 686-688).
QuestionOutcomes(q) ==
    LET lexical == config.USE_HYBRID_SEARCH /\ bm25_index # <<>>
        read == IF lexical THEN index_origin ELSE "none"
    IN  {[raises |-> TRUE, value |-> "", index |-> "none"] : x \in {1} \ {IF config.skip THEN 1 ELSE 0}}
        \cup {[raises |-> FALSE, value |-> NOT_AVAILABLE, index |-> read]}
        \cup {[raises |-> FALSE, value |-> v, index |-> read] :
                 v \in IF lexical \/ ~config.skip
                       THEN {GeneratedAnswer(q), ERROR_ANSWER} ELSE {}}

\* process_questions_sequential, lines 760-769: one iteration of the loop.
ProcessQuestion ==
    /\ pc = "questions"
    /\ Len(answers) < Len(request.questions)
    /\ LET q == request.questions[Len(answers) + 1]
       IN  \E o \in QuestionOutcomes(q) :
              /\ answers' = IF o.raises THEN Caught(answers) ELSE Append(answers, o.value)
              /\ q_log' = Append(q_log, [question |-> q, raises |-> o.raises,
                                         value |-> o.value, index |-> o.index])
    /\ UNCHANGED <<config, pc, request, run_chunks, u_i, u_chunk_ids, response,
                   qd_points, index_origin, n_requests, run_log>>
    /\ UNCHANGED <<embedVars, queryVars, searcherVars, hybridVars, rerankVars, contextVars, searchVars, loadVars>>

\* lines 771 and 835-872: the loop is over, the answers are returned.
Respond ==
    /\ pc = "questions"
    /\ Len(answers) = Len(request.questions)
    /\ Reply(200, answers)
    /\ UNCHANGED <<config, request, run_chunks, u_i, u_chunk_ids, answers,
                   qd_points, index_origin, q_log, n_requests, run_log>>
    /\ UNCHANGED <<embedVars, queryVars, searcherVars, hybridVars, rerankVars, contextVars, searchVars, loadVars>>

\* The response has been sent: the request and the locals of run are gone.
Sent ==
    /\ pc = "idle"
    /\ response # NoResponse
    /\ request' = NoRequest
    /\ response' = NoResponse
    /\ run_chunks' = <<>>
    /\ u_i' = 0
    /\ u_chunk_ids' = <<>>
    /\ answers' = <<>>
    /\ q_log' = <<>>
    /\ run_log' = NoWork
    /\ UNCHANGED <<config, pc, qd_points, index_origin, n_requests>>
    /\ UNCHANGED <<embedVars, queryVars, searcherVars, hybridVars, rerankVars, contextVars, searchVars, loadVars>>

Next ==
    \/ Run
    \/ Sent
    \/ UpsertEmbed
    \/ \E v \in Versions : EmbedBatchOk(v)
    \/ EmbedBatchRateLimit
    \/ EmbedBatchOtherError
    \/ UpsertPoints
    \/ ProcessQuestion
    \/ Respond

Spec == Init /\ [][Next]_vars

\* ------------------------------------------------- run: the claims C1-C3
\* The request passed the authentication and carries documents and questions.
Passed ==
    /\ \/ config.HACKRX_API_KEY = <<>>
       \/ /\ request.authorization.present
          /\ request.authorization.value = Bearer \o config.HACKRX_API_KEY
    /\ request.urls # <<>>
    /\ request.questions # <<>>

\* C1: a request that passed the authentication and the non-empty check is
\* answered 200 with exactly one answer per question, whatever happened: normal
\* completion, no chunk, an exception while fetching, decoding or indexing,
\* failures of questions.
C1_OneAnswerPerQuestion ==
    (response.status # 0 /\ Passed) =>
        /\ response.status = 200
        /\ Len(response.answers) = Len(request.questions)

\* C1 happens: two questions, chunks were extracted and the indexing raised.
C1_Witness ==
    /\ Passed
    /\ run_chunks # <<>>
    /\ response.status = 200
    /\ response.answers = <<PROCESSING_ERROR, PROCESSING_ERROR>>

\* C2: the questions are processed one at a time in input order; a question
\* whose processing raises gets the error sentinel at its own position, every
\* other question is processed and its answer is what process_question returned
\* for it.
C2_FailureIsolatedPerQuestion ==
    /\ Len(q_log) = Len(answers)
    /\ Len(answers) <= Len(request.questions)
    /\ \A j \in DOMAIN answers :
          /\ q_log[j].question = request.questions[j]
          /\ answers[j] = IF q_log[j].raises
                          THEN "Error processing the question. Please try again."
                          ELSE q_log[j].value
    /\ (pc = "idle" /\ answers # <<>>) =>
          /\ Len(answers) = Len(request.questions)
          /\ response.answers = answers

\* C2 happens: the first of two questions raised, the second was answered.
C2_Witness ==
    /\ pc = "idle"
    /\ Len(answers) = 2
    /\ q_log[1].raises
    /\ ~q_log[2].raises
    /\ answers[2] = GeneratedAnswer(request.questions[2])
    /\ response.answers = answers

\* C3: when the questions of a request are answered the lexical index is the one
\* ingestion built from the chunks of this request; no question is answered
\* against an index of an earlier request or one loaded from disk at startup.
C3_LexicalIndexOfThisRequest ==
    /\ (pc = "questions" /\ config.USE_HYBRID_SEARCH) => index_origin = "this"
    /\ \A j \in DOMAIN q_log : q_log[j].index \notin {"disk", "earlier"}

\* --------------------------------- the context of a question (730-743)
\* line 738: text[:200], the part of a text the deduplication looks at
DEDUPE_PREFIX == 200

\* line 738 with the mutation: the whole text is fingerprinted.
DedupeKeyWhole(text) == text

\* line 738: md5(text[:200]), taken to be injective
DedupeKey(text) == SubSeq(text, 1, Min(DEDUPE_PREFIX, Len(text)))

\* lines 732-741: context_parts, the texts whose key no earlier text of top has.
RECURSIVE ContextParts(_)
ContextParts(top) ==
    IF top = <<>> THEN <<>>
    ELSE LET front == SubSeq(top, 1, Len(top) - 1)
             text == top[Len(top)].text
         IN  IF \E i \in 1..Len(front) : DedupeKey(front[i].text) = DedupeKey(text)
             THEN ContextParts(front)
             ELSE Append(ContextParts(front), text)

\* line 743: "\n\n".join(context_parts)
RECURSIVE JoinBlankLine(_)
JoinBlankLine(parts) ==
    IF parts = <<>> THEN <<>>
    ELSE IF Len(parts) = 1 THEN parts[1]
    ELSE parts[1] \o <<"\n", "\n">> \o JoinBlankLine(Tail(parts))

\* lines 730-743: top, context_parts and context.
BuildContext(picked, max_chunks) ==
    LET parts == ContextParts(Prefix(picked, max_chunks))
    IN  [parts |-> parts, context |-> JoinBlankLine(parts)]

\* ----------------------------------------------------------- SpecContext
\* The texts of the candidates: of exactly 200 characters, the same with one
\* more character, one that differs in the 200th character, one of 199
\* characters and a short one.
ContextTexts ==
    {Rep("a", 200), Rep("a", 200) \o <<"b">>, Rep("a", 199) \o <<"b">>,
     Rep("a", 199), <<"c">>}

InitContext ==
    /\ \E n \in 0..(MaxCtx + 1) : \E texts \in [1..n -> ContextTexts] :
       \E max_chunks \in 0..MaxCtx :
          c_args = [picked |-> [i \in 1..n |-> [id |-> i, text |-> texts[i]]],
                    max_chunks |-> max_chunks]
    /\ c_result = <<>>
    /\ embedding_cache = <<>>
    /\ EmbedIdle
    /\ QueryIdle
    /\ SearcherEmpty
    /\ HybridIdle
    /\ RerankIdle
    /\ RunIdle
    /\ SearchIdle
    /\ LoadIdle

\* process_question, lines 730-743
AssembleContext ==
    /\ c_result = <<>>
    /\ c_result' = <<BuildContext(c_args.picked, c_args.max_chunks)>>
    /\ UNCHANGED <<c_args, embedVars, queryVars, searcherVars, hybridVars, rerankVars,
                   runVars, searchVars, loadVars>>

NextContext == AssembleContext

SpecContext == InitContext /\ [][NextContext]_vars

\* ----------------------------------------------------------- the claim C11
\* The ranks (positions in picked) whose text the context must hold: within the
\* first max_chunks, those with no earlier text of the same first 200 characters.
KeptRanks ==
    {i \in 1..Min(c_args.max_chunks, Len(c_args.picked)) :
        \A j \in 1..(i - 1) :
            SubSeq(c_args.picked[j].text, 1, Min(200, Len(c_args.picked[j].text)))
                # SubSeq(c_args.picked[i].text, 1, Min(200, Len(c_args.picked[i].text)))}

\* Where part p starts in the context (0-based), a blank line being 2 characters.
RECURSIVE PartOffset(_, _)
PartOffset(parts, p) ==
    IF p = 1 THEN 0 ELSE PartOffset(parts, p - 1) + Len(parts[p - 1]) + 2

\* C11: the context holds texts of the first max_chunks candidates only; a
\* candidate with the same first 200 characters as an earlier one is dropped;
\* the kept texts stand in rank order, joined by a blank line; so no two texts
\* of the context share their first 200 characters and there are at most
\* max_chunks of them.
C11_ContextOfTopChunks ==
    c_result # <<>> =>
        LET parts == c_result[1].parts
            context == c_result[1].context
            n == Len(parts)
        IN  /\ n = Cardinality(KeptRanks)
            /\ n <= c_args.max_chunks
            /\ \A p \in 1..n :
                  LET rank == CHOOSE i \in KeptRanks :
                                  Cardinality({j \in KeptRanks : j < i}) = p - 1
                  IN  /\ parts[p] = c_args.picked[rank].text
                      /\ SubSeq(context, PartOffset(parts, p) + 1,
                                PartOffset(parts, p) + Len(parts[p])) = parts[p]
                      /\ p < n => SubSeq(context, PartOffset(parts, p) + Len(parts[p]) + 1,
                                         PartOffset(parts, p) + Len(parts[p]) + 2)
                                     = <<"\n", "\n">>
            /\ Len(context) = IF n = 0 THEN 0 ELSE PartOffset(parts, n) + Len(parts[n])
            /\ \A p, q \in 1..n :
                  p # q => SubSeq(parts[p], 1, Min(200, Len(parts[p])))
                              # SubSeq(parts[q], 1, Min(200, Len(parts[q])))

\* C11 happens: three candidates, the second repeats the first 200 characters
\* of the first and is dropped, the third is beyond max_chunks.
C11_Witness ==
    /\ c_result # <<>>
    /\ Len(c_args.picked) = 3
    /\ c_args.max_chunks = 2
    /\ c_args.picked[1].text = Rep("a", 200)
    /\ c_args.picked[2].text = Rep("a", 200) \o <<"b">>
    /\ c_args.picked[3].text = <<"c">>
    /\ c_result[1].parts = <<Rep("a", 200)>>

\* ------------------------------------------------------ run: the claim C12
\* The header carries no bearer token: it is absent, does not start with
\* "Bearer ", or nothing follows "Bearer ".
TokenMissing ==
    \/ ~request.authorization.present
    \/ ~startswith(request.authorization.value, Bearer)
    \/ Len(request.authorization.value) = Len(Bearer)

TokenMatches ==
    /\ request.authorization.present
    /\ request.authorization.value = Bearer \o config.HACKRX_API_KEY

\* C12: with an API key configured a request is answered 401 when the bearer
\* token is missing (header absent, not starting with "Bearer ", "Bearer " and
\* nothing) and 403 when the token is wrong; in these cases nothing is fetched,
\* indexed or processed; the pipeline runs only with the matching token.
C12_RejectedWithoutWork ==
    config.HACKRX_API_KEY # <<>> =>
        /\ (response.status # 0 /\ TokenMissing) => response.status = 401
        /\ (response.status # 0 /\ ~TokenMissing /\ ~TokenMatches) => response.status = 403
        /\ (request # NoRequest /\ ~TokenMatches) =>
              /\ run_log = NoWork
              /\ run_chunks = <<>>
              /\ q_log = <<>>
              /\ pc = "idle"

\* ------------------------------------------------------ run: the claim C13
\* The position of chunk i of the request within its own document (from 0).
OrdinalInDocument(i) ==
    Cardinality({j \in 1..(i - 1) : run_chunks[j].source = run_chunks[i].source})

\* C13: the identifier of a chunk is that of (its document, its position in
\* the document), whatever documents the request ingests before it; the chunks
\* of one ingestion have different identifiers.
C13_ChunkIdOfDocumentAndPosition ==
    /\ \A i \in DOMAIN u_chunk_ids :
          u_chunk_ids[i] = ChunkId(sha1(run_chunks[i].source), OrdinalInDocument(i))
    /\ \A i, j \in DOMAIN u_chunk_ids : i # j => u_chunk_ids[i] # u_chunk_ids[j]

\* ------------------------------------------------------ run: the claim C14
\* extract_chunks returned and found no chunk in any document of the request.
ZeroChunks == run_log.extraction = "done" /\ run_chunks = <<>>

\* C14: when the documents of a request yield no chunk at all, every question
\* gets the fixed extraction-failed answer and the request ends there: no
\* embedding call, no upsert, no rebuild of the lexical index, no question is
\* processed, and the index, the cache and the vector store stay as they were.
C14_ZeroChunksShortCircuit ==
    /\ [](ZeroChunks =>
            /\ pc = "idle"
            /\ e_pc = "idle"
            /\ response.status = 200
            /\ Len(response.answers) = Len(request.questions)
            /\ \A i \in DOMAIN response.answers :
                  response.answers[i]
                      = "Document processing failed. No text could be extracted."
            /\ run_log.embedded = 0
            /\ run_log.upserted = 0
            /\ run_log.rebuilt = 0
            /\ q_log = <<>>
            /\ answers = <<>>)
    /\ [][ZeroChunks' => UNCHANGED <<searcherVars, embedding_cache, qd_points>>]_vars

\* C14 happens: two documents without a chunk and two questions, while the
\* cache, the store and the index hold what an earlier request left.
C14_Witness ==
    /\ ZeroChunks
    /\ Len(request.urls) = 2
    /\ response.answers = <<EXTRACTION_FAILED, EXTRACTION_FAILED>>
    /\ embedding_cache # <<>>
    /\ qd_points # <<>>
    /\ bm25_index # <<>>

\* ------------------------------------------- vector search (562-612)
Max(a, b) == IF a > b THEN a ELSE b

\* Thresholds are hundredths, weights tenths: 12 is 0.12, 10 is 1.0.
\* line 592: max(0.1, SCORE_THRESHOLD - 0.05)
RelaxedThreshold(threshold) == Max(10, threshold - 5)

\* line 594-596 with the mutation: what was aggregated so far is returned.
OnStoreFailureKeep(all_results) == all_results

\* lines 594-596: return []
OnStoreFailure(all_results) == <<>>

\* lines 599-607: the hits of one variant are added, score * weight each;
\* all_results in the order the dict received its keys.
RECURSIVE Aggregate(_, _, _)
Aggregate(all_results, res, weight) ==
    IF res = <<>> THEN all_results
    ELSE LET r == res[1]
             at == IndexOf(Ids(all_results), r.id)
             added == Frac(r.score * weight, 10)
         IN  Aggregate(IF at > 0
                       THEN [all_results EXCEPT ![at].score = FracAdd(@, added)]
                       ELSE Append(all_results, [id |-> r.id, score |-> added]),
                       Tail(res), weight)

\* lines 568-612 from variant i on.  does[i] says what the services do for
\* variant i: raises is "embed" (line 570 raises), "first" or "retry" (that
\* qd.search raises) or "no"; first and retry are the hits of the two searches.
RECURSIVE SearchFrom(_, _, _, _)
SearchFrom(args, i, all_results, searches) ==
    IF i > Len(args.weights)
    THEN [raised |-> FALSE, searches |-> searches,
          results |-> Prefix(SortedDesc(all_results), args.limit)]
    ELSE IF args.does[i].raises = "embed"
    THEN [raised |-> TRUE, searches |-> searches, results |-> <<>>]
    ELSE LET first == Append(searches, [variant |-> i, relaxed |-> FALSE,
                                        threshold |-> args.threshold])
             retry == Append(first, [variant |-> i, relaxed |-> TRUE,
                                     threshold |-> RelaxedThreshold(args.threshold)])
         IN  IF args.does[i].raises = "first"
             THEN [raised |-> FALSE, searches |-> first,
                   results |-> OnStoreFailure(all_results)]
             ELSE IF args.does[i].first = <<>> /\ args.weights[i] = 10
             THEN IF args.does[i].raises = "retry"
                  THEN [raised |-> FALSE, searches |-> retry,
                        results |-> OnStoreFailure(all_results)]
                  ELSE SearchFrom(args, i + 1,
                                  Aggregate(all_results, args.does[i].retry,
                                            args.weights[i]), retry)
             ELSE SearchFrom(args, i + 1,
                             Aggregate(all_results, args.does[i].first,
                                       args.weights[i]), first)

\* lines 562-612
qdrant_search_multi(args) ==
    IF args.skip THEN [raised |-> FALSE, searches |-> <<>>, results |-> <<>>]
    ELSE SearchFrom(args, 1, <<>>, <<>>)

\* ------------------------------------------------------------ SpecSearch
\* The weights of the lists generate_query_variants returns (lines 151-186).
VariantWeights == {<<10>>, <<10, 7>>, <<10, 5>>, <<10, 7, 7>>, <<10, 7, 5>>}

\* SCORE_THRESHOLD: the default 0.12 and values below, at and above the floor.
Thresholds == {5, 10, 12, 20}

\* What one qd.search can return: the points 1..MaxHits, best first.
Hits == Rankings(1..MaxHits, MaxHits)

\* What the services can do for a variant of the given weight.
Does(weight) ==
    {[raises |-> x, first |-> <<>>, retry |-> <<>>] : x \in {"embed", "first"}}
    \cup {[raises |-> "no", first |-> h, retry |-> <<>>] : h \in Hits \ {<<>>}}
    \cup IF weight = 10
         THEN {[raises |-> "retry", first |-> <<>>, retry |-> <<>>]}
              \cup {[raises |-> "no", first |-> <<>>, retry |-> h] : h \in Hits}
         ELSE {[raises |-> "no", first |-> <<>>, retry |-> <<>>]}

InitSearch ==
    /\ \E weights \in VariantWeights :
       \E does \in {d \in [1..Len(weights) -> UNION {Does(w) : w \in {10, 7, 5}}] :
                       \A i \in 1..Len(weights) : d[i] \in Does(weights[i])} :
       \E limit \in 1..MaxHits :
       \E threshold \in Thresholds :
       \E skip \in IF Len(weights) = 1 THEN BOOLEAN ELSE {FALSE} :
          s_args = [weights |-> weights, does |-> does, limit |-> limit,
                    threshold |-> threshold, skip |-> skip]
    /\ s_result = <<>>
    /\ embedding_cache = <<>>
    /\ EmbedIdle
    /\ QueryIdle
    /\ SearcherEmpty
    /\ HybridIdle
    /\ RerankIdle
    /\ RunIdle
    /\ ContextIdle
    /\ LoadIdle

\* retrieve_with_hybrid, line 619
SearchMulti ==
    /\ s_result = <<>>
    /\ s_result' = <<qdrant_search_multi(s_args)>>
    /\ UNCHANGED <<s_args, embedVars, queryVars, searcherVars, hybridVars, rerankVars,
                   runVars, contextVars, loadVars>>

NextSearch == SearchMulti

SpecSearch == InitSearch /\ [][NextSearch]_vars

\* ----------------------------------------------- the claims C15 and C17
\* The hits variant i contributes when no service fails: those of the retry
\* when the primary variant found nothing at first.
Contributed(i) ==
    IF s_args.does[i].first = <<>> /\ s_args.weights[i] = 10
    THEN s_args.does[i].retry
    ELSE s_args.does[i].first

ReturnedIds == UNION {Range(Ids(Contributed(i))) : i \in DOMAIN s_args.weights}

\* The sum of score * weight (in tenths) over the variants 1..i that returned id.
RECURSIVE WeightedSum(_, _)
WeightedSum(id, i) ==
    IF i = 0 THEN 0
    ELSE LET at == IndexOf(Ids(Contributed(i)), id)
         IN  WeightedSum(id, i - 1)
                 + (IF at = 0 THEN 0 ELSE Contributed(i)[at].score * s_args.weights[i])

\* The vector store fails on some variant, nothing having failed before.
StoreFails ==
    \E i \in DOMAIN s_args.does :
        /\ s_args.does[i].raises \in {"first", "retry"}
        /\ \A j \in 1..(i - 1) : s_args.does[j].raises = "no"

\* C15: a failure of the vector store on any variant makes the call return an
\* empty list, what was aggregated before being discarded; when nothing fails
\* the score of a candidate is the sum of score * weight over the variants that
\* returned it, and the result is in descending order of that sum, cut to limit.
C15_SearchMultiAggregation ==
    (s_result # <<>> /\ ~s_args.skip) =>
        LET out == s_result[1].results
            n == Len(s_args.weights)
        IN  /\ StoreFails => (out = <<>> /\ ~s_result[1].raised)
            /\ (\A i \in 1..n : s_args.does[i].raises = "no") =>
                  /\ Len(out) = Min(s_args.limit, Cardinality(ReturnedIds))
                  /\ \A p \in 1..Len(out) :
                        /\ out[p].id \in ReturnedIds
                        /\ out[p].score.n * 10 = WeightedSum(out[p].id, n) * out[p].score.d
                  /\ \A p, q \in 1..Len(out) :
                        p < q => /\ out[p].id # out[q].id
                                 /\ WeightedSum(out[p].id, n) >= WeightedSum(out[q].id, n)
                  /\ \A id \in ReturnedIds \ Range(Ids(out)) :
                        \A p \in 1..Len(out) :
                            WeightedSum(out[p].id, n) >= WeightedSum(id, n)

\* C15 happens: the first variant returned two hits, the store failed on the
\* second variant, and the call returned nothing.
C15_Witness ==
    /\ s_result # <<>>
    /\ ~s_args.skip
    /\ Len(s_args.weights) >= 2
    /\ s_args.does[1].raises = "no"
    /\ Len(s_args.does[1].first) = 2
    /\ s_args.does[2].raises = "first"
    /\ s_result[1].results = <<>>

\* C17: a search with the relaxed threshold is issued only for the primary
\* variant (weight 1.0), only when its first search returned no hit, and at most
\* once per call; the relaxed threshold is the configured one lowered by 0.05,
\* not below 0.1, and is never higher than the configured threshold.
C17_RelaxedRetry ==
    s_result # <<>> =>
        LET searches == s_result[1].searches
            relaxed == {x \in DOMAIN searches : searches[x].relaxed}
        IN  /\ Cardinality(relaxed) <= 1
            /\ \A x \in relaxed :
                  /\ s_args.weights[searches[x].variant] = 10
                  /\ s_args.does[searches[x].variant].first = <<>>
                  /\ s_args.does[searches[x].variant].raises # "first"
                  /\ x > 1
                  /\ searches[x - 1] = [variant |-> searches[x].variant,
                                        relaxed |-> FALSE,
                                        threshold |-> s_args.threshold]
                  /\ searches[x].threshold =
                        (IF s_args.threshold - 5 < 10 THEN 10 ELSE s_args.threshold - 5)
                  /\ searches[x].threshold <= s_args.threshold

\* ------------------------------------------------- load_index (396-407)
\* What build_bm25_index pickles for one chunk of document 1 (lines 384-391).
BlobIndex == <<<<ChunkText(1, 0)>>>>
BlobCorpus == <<ChunkText(1, 0)>>
BlobIdMap == <<ChunkId(sha1(1), 0)>>
BlobPayloadMap ==
    [id \in {ChunkId(sha1(1), 0)} |-> [doc_id |-> sha1(1), text |-> ChunkText(1, 0)]]

\* The file: missing, not unpicklable to a dict, or a dict with some of the
\* four keys 'index', 'corpus', 'id_map', 'payload_map'.
Blobs ==
    {[kind |-> "missing", parts |-> {}], [kind |-> "unreadable", parts |-> {}]}
    \cup {[kind |-> "dict", parts |-> P] :
             P \in SUBSET {"index", "corpus", "id_map", "payload_map"}}

\* lines 400-403: the assignments run in the order index, corpus, id_map,
\* payload_map and stop at the first key the dict lacks (KeyError, caught at
\* line 406); part is assigned when it and every key before it is there.
Assigned(blob, part) ==
    /\ blob.kind = "dict"
    /\ \/ part = "index" /\ "index" \in blob.parts
       \/ part = "corpus" /\ {"index", "corpus"} \subseteq blob.parts
       \/ part \in {"id_map", "payload_map"}
             /\ {"index", "corpus", "id_map"} \subseteq blob.parts

\* HybridSearcher.load_index, lines 396-407
load_index(blob) ==
    /\ bm25_index' = IF Assigned(blob, "index") THEN BlobIndex ELSE bm25_index
    /\ bm25_corpus' = IF Assigned(blob, "corpus") THEN BlobCorpus ELSE bm25_corpus
    /\ bm25_id_map' = IF Assigned(blob, "id_map") THEN BlobIdMap ELSE bm25_id_map
    /\ chunk_id_to_payload' =
           IF Assigned(blob, "payload_map")
           THEN (IF "payload_map" \in blob.parts THEN BlobPayloadMap ELSE <<>>)
           ELSE chunk_id_to_payload
    /\ l_returned' = <<blob.kind = "dict"
                         /\ {"index", "corpus", "id_map"} \subseteq blob.parts>>

\* -------------------------------------------------------------- SpecLoad
\* Startup (lines 472-473): a new searcher, the file as it is, and the search
\* a later question will make.
InitLoad ==
    /\ l_blob \in Blobs
    /\ l_returned = <<>>
    /\ SearcherEmpty
    /\ \E limit \in 1..MaxCorpus :
       \E scores \in [1..1 -> Scores] :
       \E vr \in Rankings({ChunkId(sha1(1), 0), ChunkId(sha1(1), 1)}, MaxCorpus) :
          h_args = [scores |-> scores, vector_results |-> vr,
                    doc_ids |-> {1}, limit |-> limit]
    /\ h_result = <<>>
    /\ embedding_cache = <<>>
    /\ EmbedIdle
    /\ QueryIdle
    /\ RerankIdle
    /\ RunIdle
    /\ ContextIdle
    /\ SearchIdle

\* line 473: hybrid_searcher.load_index()
LoadIndex ==
    /\ l_returned = <<>>
    /\ load_index(l_blob)
    /\ UNCHANGED <<l_blob, embedVars, queryVars, hybridVars, rerankVars, runVars,
                   contextVars, searchVars>>

\* retrieve_with_hybrid, lines 621-622, in a request after the startup
SearchAfterLoad ==
    /\ l_returned # <<>>
    /\ HybridSearch

NextLoad ==
    \/ LoadIndex
    \/ SearchAfterLoad

SpecLoad == InitLoad /\ [][NextLoad]_vars

\* ----------------------------------------------------------- the claim C16
\* C16: a reload that fails (file missing, blob unreadable, blob lacking one of
\* its parts) returns False and leaves the searcher as it was, without an
\* index, so that hybrid_search returns the vector results cut to limit.
C16_FailedReloadLeavesNoIndex ==
    l_returned = <<FALSE>> =>
        /\ bm25_index = <<>>
        /\ bm25_corpus = <<>>
        /\ bm25_id_map = <<>>
        /\ chunk_id_to_payload = <<>>
        /\ h_result # <<>> =>
              h_result[1] = SubSeq(h_args.vector_results, 1,
                                   Min(h_args.limit, Len(h_args.vector_results)))

====
